---- MODULE Spec2Model ----
(***************************************************************************)
(* Model of the API service of ai-pdf-assistant                            *)
(* (src/backend/data_handler.py, src/backend/database.py).                 *)
(*                                                                         *)
(* The two tables of the database are sequences of rows in heap order.    *)
(* Every handler is one action: it reads the tables, commits at most one  *)
(* change and leaves its request and response in `last`.  A fetchone() on *)
(* a SELECT without ORDER BY returns any one of the matching rows.         *)
(* Requests that overlap are served by two workers, step by step.         *)
(***************************************************************************)
EXTENDS Integers, Sequences, FiniteSets, TLC

VARIABLES
    users,      \* table users: Seq of [user_id, user_name, email, password]
    pdfs,       \* table pdfs: Seq of [user_id, file_name, upload_date, pdf_text, last_updated]
    tokens,     \* bearer tokens issued so far by sign_jwt
    today,      \* the current UTC day, as a day number
    tempFiles,  \* the files in UPLOAD_DIR: path -> contents
    last,       \* the request handled last: [op, req, resp, conn, io]
    arrived,    \* per user: texts of the successful uploads/updates, in arrival order
    cleared,    \* per user: TRUE from a delete_data of the user until the user's next upload
    deleted,    \* per user: the users row its last delete_account removed, NoRow once registered again
    calls       \* per worker: the request it is serving step by step, when requests overlap

vars == <<users, pdfs, tokens, today, tempFiles, last, arrived, cleared, deleted, calls>>

(***************************************************************************)
(* Bounds of the model.                                                    *)
(***************************************************************************)
MaxDay == 2
MaxArrivals == 2

(***************************************************************************)
(* Values.                                                                 *)
(***************************************************************************)
None == "None"
NoRow == [user_id |-> None]

\* str(uuid) of the two callers; the first is the hardcoded admin identifier.
UUIDs == {"92994189-e6ae-43f8-8df9-00247522e3c6", "00000000-0000-4000-8000-000000000002"}

\* Passwords are sequences of code points.
Pad71 == [i \in 1..71 |-> 97]
PwP == <<112>>
PwQ == <<113>>
PwStraddle == Pad71 \o <<233>>     \* 71 x "a", then U+00E9: 73 bytes of UTF-8

Min(a, b) == IF a < b THEN a ELSE b

(***************************************************************************)
(* str.encode("utf-8") and bytes.decode("utf-8") for code points below     *)
(* U+0800 (one or two bytes each).  Both split their argument in halves,   *)
(* the decoder never inside a two-byte character.                          *)
(***************************************************************************)
Utf8Char(c) == IF c < 128 THEN <<c>> ELSE <<192 + (c \div 64), 128 + (c % 64)>>

RECURSIVE Utf8Encode(_)
Utf8Encode(s) ==
    IF Len(s) = 0 THEN <<>>
    ELSE IF Len(s) = 1 THEN Utf8Char(s[1])
    ELSE LET mid == Len(s) \div 2
         IN  Utf8Encode(SubSeq(s, 1, mid)) \o Utf8Encode(SubSeq(s, mid + 1, Len(s)))

IsLead(byte) == byte >= 192 /\ byte < 224
IsContinuation(byte) == byte >= 128 /\ byte < 192

\* The decoded code points; ok is FALSE where Python raises UnicodeDecodeError.
RECURSIVE Utf8Decode(_)
Utf8Decode(b) ==
    IF Len(b) = 0 THEN [ok |-> TRUE, text |-> <<>>]
    ELSE IF Len(b) = 1 THEN [ok |-> b[1] < 128, text |-> b]
    ELSE IF Len(b) = 2 /\ IsLead(b[1])
         THEN [ok |-> IsContinuation(b[2]), text |-> <<(b[1] - 192) * 64 + (b[2] - 128)>>]
    ELSE LET mid == Len(b) \div 2
             cut == IF ~IsLead(b[mid]) THEN mid ELSE IF mid = 1 THEN 2 ELSE mid - 1
             left == Utf8Decode(SubSeq(b, 1, cut))
             right == Utf8Decode(SubSeq(b, cut + 1, Len(b)))
         IN  [ok |-> left.ok /\ right.ok, text |-> left.text \o right.text]

\* password.encode("utf-8")[:72]
BcryptLimit == 72
TruncateBytes(b) == SubSeq(b, 1, Min(Len(b), BcryptLimit))

(***************************************************************************)
(* passlib's bcrypt.  The digest stands for the salted hash: bcrypt reads  *)
(* the first 72 bytes of the UTF-8 encoding of the secret and nothing      *)
(* else, and verify recomputes the hash from the secret offered.           *)
(***************************************************************************)
BcryptHash(secret) == [digest |-> TruncateBytes(Utf8Encode(secret))]
BcryptVerify(secret, hash) == BcryptHash(secret) = hash

(***************************************************************************)
(* Responses.  HTTPException(status_code, detail) is what the handlers     *)
(* raise; an exception that is no HTTPException leaves the framework as a  *)
(* plain 500.                                                              *)
(***************************************************************************)
HTTPException(status_code, detail) == [status |-> status_code, detail |-> detail]
Unhandled == [status |-> 500, detail |-> "Internal Server Error"]

(***************************************************************************)
(* database.py: get_connection.  `fails` is the number of connect attempts *)
(* the database refuses before it accepts one.                             *)
(***************************************************************************)
retries == 10

RECURSIVE ConnectLoop(_, _)
ConnectLoop(i, fails) ==
    IF i >= retries THEN [ok |-> FALSE, attempts |-> i, closed |-> FALSE]   \* RuntimeError
    ELSE IF i < fails THEN ConnectLoop(i + 1, fails)                        \* except: sleep, next i
    ELSE [ok |-> TRUE, attempts |-> i + 1, closed |-> FALSE]                \* return conn

get_connection(fails) == ConnectLoop(0, fails)

\* conn = None: the handler has not called get_connection.
NoConn == [ok |-> FALSE, attempts |-> 0, closed |-> FALSE]

\* finally: if conn: conn.close()
FinallyOpen(conn) == conn

Finally(conn) == [conn EXCEPT !.closed = conn.ok]

(***************************************************************************)
(* auth.py is not among the sources: sign and verify as the specification  *)
(* gives them.  A token carries the user identifier it was signed for.     *)
(***************************************************************************)
sign_jwt(user_id) == [sub |-> user_id]
require_login(token) == token.sub

(***************************************************************************)
(* The SQL statements on table users.                                      *)
(***************************************************************************)
\* SELECT user_id, email FROM users WHERE user_id = %s OR email = %s
SelectUserByIdOrEmail(tbl, uuid_str, addr) ==
    {i \in DOMAIN tbl : tbl[i].user_id = uuid_str \/ tbl[i].email = addr}

\* INSERT INTO users (...) VALUES (...); commit
InsertUser(tbl, row) == Append(tbl, row)

\* The lookup gone wrong: by e-mail address alone.
SelectUserByEmailOnly(tbl, ident) == {i \in DOMAIN tbl : tbl[i].email = ident}

\* SELECT ... FROM users WHERE user_name = %s OR email = %s
SelectUserByNameOrEmail(tbl, ident) ==
    {i \in DOMAIN tbl : tbl[i].user_name = ident \/ tbl[i].email = ident}

\* SELECT ... FROM users WHERE user_id = %s
SelectUserById(tbl, uid) == {i \in DOMAIN tbl : tbl[i].user_id = uid}

RECURSIVE Without(_, _)
Without(tbl, gone) ==
    IF tbl = <<>> THEN <<>>
    ELSE LET rest == Without(Tail(tbl), {i - 1 : i \in gone \ {1}})
         IN  IF 1 \in gone THEN rest ELSE <<Head(tbl)>> \o rest

\* The deletion gone wrong: never committed.
DeleteUserUncommitted(tbl, uid) == tbl

\* DELETE FROM users WHERE user_id = %s; commit
DeleteUser(tbl, uid) == Without(tbl, SelectUserById(tbl, uid))

(***************************************************************************)
(* The state every request leaves behind.                                  *)
(***************************************************************************)
Served(op, req, resp, conn) ==
    [op |-> op, req |-> req, resp |-> resp, conn |-> conn,
     io |-> [written |-> FALSE, extracted |-> FALSE, llm |-> "idle"]]

docVars == <<pdfs, tempFiles, arrived, cleared>>

(***************************************************************************)
(* POST /register_user/{uuid}                                              *)
(***************************************************************************)
max_user_length == 15

RegisterEmptyName == HTTPException(400, "User name cannot be empty!")
RegisterLongName == HTTPException(400, "User name is too long!")
RegisterUuidTaken == HTTPException(400, "UUID is already registered!")
RegisterEmailTaken == HTTPException(400, "Email is already exist!")
RegisterOk == [status |-> 200, detail |-> "User registered successfully!"]

register_user(uuid, reg, fails) ==
    LET uuid_str == uuid
        registration_date == today
        Return(resp, conn, tbl) ==
            /\ users' = tbl
            /\ last' = Served("register_user", [uuid |-> uuid_str, user |-> reg], resp, conn)
            /\ deleted' = IF tbl # users THEN [deleted EXCEPT ![uuid_str] = NoRow] ELSE deleted
            /\ UNCHANGED <<calls, tokens, today, docVars>>
    IN  IF reg.user_name = "" THEN Return(RegisterEmptyName, NoConn, users)
        ELSE IF Len(reg.user_name) > max_user_length THEN Return(RegisterLongName, NoConn, users)
        ELSE LET conn == get_connection(fails) IN
             IF ~conn.ok THEN Return(Unhandled, conn, users)
             ELSE LET found == SelectUserByIdOrEmail(users, uuid_str, reg.email)
                      Insert ==
                          LET password_bytes == TruncateBytes(Utf8Encode(reg.password))
                              decoded == Utf8Decode(password_bytes)
                          IN  IF ~decoded.ok THEN Return(Unhandled, Finally(conn), users)
                              ELSE Return(RegisterOk, Finally(conn),
                                          InsertUser(users,
                                              [user_id |-> uuid_str,
                                               user_name |-> reg.user_name,
                                               email |-> reg.email,
                                               password |-> BcryptHash(decoded.text),
                                               registration_date |-> registration_date]))
                  IN  IF found = {} THEN Insert
                      ELSE \E i \in found :
                             IF users[i].user_id = uuid_str
                             THEN Return(RegisterUuidTaken, Finally(conn), users)
                             ELSE IF users[i].email = reg.email
                             THEN Return(RegisterEmailTaken, Finally(conn), users)
                             ELSE Insert

(***************************************************************************)
(* POST /login.  LoginInput strips the identifier and wants 3 to 50        *)
(* characters of it; a body it refuses never reaches the handler.          *)
(***************************************************************************)
min_length == 3
max_length == 50

\* strip_whitespace on the identifiers of the model: one of them is padded.
StripWhitespace(s) == IF s = " bob " THEN "bob" ELSE s

LoginInput(ident, secret) ==
    LET stripped == StripWhitespace(ident)
    IN  [ok |-> Len(stripped) >= min_length /\ Len(stripped) <= max_length,
         identifier |-> stripped,
         password |-> secret]

Unprocessable == [status |-> 422, detail |-> "validation error"]
InvalidCredentialsNotFound == HTTPException(401, "Invalid credentials.")
\* The answer gone wrong: one that tells a wrong password from an unknown user.
InvalidCredentialsLeak == HTTPException(401, "Wrong password.")

InvalidCredentialsWrongPassword == HTTPException(401, "Invalid credentials.")
LoginOk(token) ==
    [status |-> 200, detail |-> "Login successful", access_token |-> token, token_type |-> "bearer"]

user_login(ident, secret, fails) ==
    LET login_data == LoginInput(ident, secret)
        Return(resp, conn, issued) ==
            /\ tokens' = tokens \cup issued
            /\ last' = Served("login", [identifier |-> ident, password |-> secret], resp, conn)
            /\ UNCHANGED <<calls, users, today, deleted, docVars>>
    IN  IF ~login_data.ok THEN Return(Unprocessable, NoConn, {})
        ELSE LET conn == get_connection(fails) IN
             IF ~conn.ok THEN Return(Unhandled, conn, {})
             ELSE LET found == SelectUserByNameOrEmail(users, login_data.identifier)
                  IN  IF found = {} THEN Return(InvalidCredentialsNotFound, Finally(conn), {})
                      ELSE \E i \in found :
                             LET db_user_id == users[i].user_id
                                 db_password == users[i].password
                             IN  IF ~BcryptVerify(login_data.password, db_password)
                                 THEN Return(InvalidCredentialsWrongPassword, Finally(conn), {})
                                 ELSE Return(LoginOk(sign_jwt(db_user_id)), Finally(conn),
                                             {sign_jwt(db_user_id)})

(***************************************************************************)
(* DELETE /delete_account                                                  *)
(***************************************************************************)
UserNotFound == HTTPException(404, "User not found")
WrongPassword == HTTPException(401, "Wrong password.")
AccountDeleted == [status |-> 201, detail |-> "Your account has been deleted!"]

delete_account(secret, token, fails) ==
    LET current_user == require_login(token)
        Return(resp, conn, tbl, gone) ==
            /\ users' = tbl
            /\ deleted' = gone
            /\ last' = Served("delete_account", [current_user |-> current_user, password |-> secret],
                              resp, conn)
            /\ UNCHANGED <<calls, tokens, today, docVars>>
        conn == get_connection(fails)
    IN  IF ~conn.ok THEN Return(Unhandled, conn, users, deleted)
        ELSE LET found == SelectUserById(users, current_user)
             IN  IF found = {} THEN Return(UserNotFound, Finally(conn), users, deleted)
                 ELSE \E i \in found :
                        IF ~BcryptVerify(secret, users[i].password)
                        THEN Return(WrongPassword, Finally(conn), users, deleted)
                        ELSE Return(AccountDeleted, Finally(conn),
                                    DeleteUser(users, current_user),
                                    [deleted EXCEPT ![current_user] = users[i]])

(***************************************************************************)
(* pdf_processor.py and llm_client.py are not among the sources: the       *)
(* extractor and the LLM client as the specification gives them.  The      *)
(* bytes of an upload are its size and the text an extraction finds in     *)
(* them (None: the extraction fails); the LLM client answers a question    *)
(* from a context, or fails.                                               *)
(***************************************************************************)
extract_text_from_pdf(files, file_path) == files[file_path].text
get_llm_response(context, query) == [answer_to |-> query, from |-> context]

(***************************************************************************)
(* The scratch directory.                                                  *)
(***************************************************************************)
UPLOAD_DIR == "/temp/cag_uploads"
NoFiles == [path \in {} |-> None]

\* with open(file_path, "wb") as buffer: buffer.write(...)
WriteFile(files, file_path, contents) ==
    [path \in DOMAIN files \cup {file_path} |->
        IF path = file_path THEN contents ELSE files[path]]

RemoveFileSkipped(files, file_path) == files

\* if os.path.exists(file_path): os.remove(file_path)
RemoveFile(files, file_path) == [path \in DOMAIN files \ {file_path} |-> files[path]]

(***************************************************************************)
(* The SQL statements on table pdfs.                                       *)
(***************************************************************************)
\* INSERT INTO pdfs (...) VALUES (...); commit
InsertPdf(tbl, row) == Append(tbl, row)

\* COALESCE(pdf_text, '')
Coalesce(text) == IF text = None THEN "" ELSE text

UpdatePdfTextReplace(tbl, appended, updated, uid, name) ==
    [i \in DOMAIN tbl |->
        IF tbl[i].user_id = uid /\ tbl[i].file_name = name
        THEN [tbl[i] EXCEPT !.pdf_text = appended, !.last_updated = updated]
        ELSE tbl[i]]

\* UPDATE pdfs SET pdf_text = COALESCE(pdf_text, '') || %s, last_updated = %s
\*     WHERE user_id = %s AND file_name = %s; commit
UpdatePdfText(tbl, appended, updated, uid, name) ==
    [i \in DOMAIN tbl |->
        IF tbl[i].user_id = uid /\ tbl[i].file_name = name
        THEN [tbl[i] EXCEPT !.pdf_text = Coalesce(@) \o appended, !.last_updated = updated]
        ELSE tbl[i]]

SelectPdfTextAnyUser(tbl, uid) == DOMAIN tbl

\* SELECT pdf_text FROM pdfs WHERE user_id = %s
SelectPdfText(tbl, uid) == {i \in DOMAIN tbl : tbl[i].user_id = uid}

DeletePdfsAll(tbl, uid) == <<>>

\* DELETE FROM pdfs WHERE user_id = %s
DeletePdfs(tbl, uid) == Without(tbl, {i \in DOMAIN tbl : tbl[i].user_id = uid})

(***************************************************************************)
(* except Exception as e: raise HTTPException(500, f"...: {str(e)}").      *)
(* str() of an HTTPException is "<status>: <detail>".                      *)
(***************************************************************************)
StatusText(status) ==
    CASE status = 400 -> "400" [] status = 404 -> "404" [] status = 500 -> "500"

Str(e) == StatusText(e.status) \o ": " \o e.detail
ConnectError == "Could not connect to the database after several attempts."
ProcessingError(text) == HTTPException(500, "An error accurred during file processing: " \o text)

(***************************************************************************)
(* POST /upload                                                            *)
(***************************************************************************)
max_size == 20 * 1024 * 1024

TooLargeFileInclusive(file_size) == file_size >= max_size

\* if file_size > max_size
TooLargeFile(file_size) == file_size > max_size

UploadNotPdf == HTTPException(400, "Invalid file type. Only PDF files are accepted")
UploadTooLarge == HTTPException(400, "The file is too large. Max size allowed is 20 MB")
UploadExtractFailed == HTTPException(500, "Failed to extract text from PDF")
UploadUserNotFound == HTTPException(404, "User ID not found")
UploadOk == [status |-> 201, detail |-> "File uploaded and text extracted successfully"]

\* What a request did to the scratch directory and the extractor.
NoIo == [written |-> FALSE, extracted |-> FALSE, llm |-> "idle"]
TempIo == [written |-> TRUE, extracted |-> TRUE, llm |-> "idle"]

upload_pdf(file, token, fails) ==
    LET upload_date == today
        file_name == file.filename
        current_user == require_login(token)
        Return(resp, conn, io, tbl, files, texts) ==
            /\ pdfs' = tbl
            /\ tempFiles' = files
            /\ arrived' = [arrived EXCEPT ![current_user] = @ \o texts]
            /\ cleared' = [cleared EXCEPT ![current_user] = @ /\ tbl = pdfs]
            /\ Len(arrived'[current_user]) <= MaxArrivals
            /\ last' = [Served("upload", [current_user |-> current_user, file |-> file], resp, conn)
                          EXCEPT !.io = io]
            /\ UNCHANGED <<calls, users, tokens, today, deleted>>
    IN  IF file.content_type # "application/pdf"
        THEN Return(UploadNotPdf, NoConn, NoIo, pdfs, tempFiles, <<>>)
        ELSE LET contents == file.contents
                 file_size == contents.size
             IN
             IF TooLargeFile(file_size)
             THEN Return(UploadTooLarge, NoConn, NoIo, pdfs, tempFiles, <<>>)
             ELSE LET file_path == UPLOAD_DIR \o "/" \o current_user \o "_" \o file_name
                      written == WriteFile(tempFiles, file_path, contents)
                      extracted_text == extract_text_from_pdf(written, file_path)
                      removed == RemoveFile(written, file_path)
                  IN
                  IF extracted_text = None
                  THEN Return(ProcessingError(Str(UploadExtractFailed)), NoConn,
                              TempIo, pdfs, removed, <<>>)
                  ELSE LET conn == get_connection(fails)
                           io == TempIo
                       IN
                       IF ~conn.ok
                       THEN Return(ProcessingError(ConnectError), conn, io, pdfs, removed, <<>>)
                       ELSE IF SelectUserById(users, current_user) = {}
                       THEN Return(ProcessingError(Str(UploadUserNotFound)), Finally(conn), io,
                                   pdfs, removed, <<>>)
                       ELSE Return(UploadOk, Finally(conn), io,
                                   InsertPdf(pdfs, [user_id |-> current_user,
                                                    file_name |-> file_name,
                                                    upload_date |-> upload_date,
                                                    pdf_text |-> extracted_text,
                                                    last_updated |-> upload_date]),
                                   removed, <<extracted_text>>)

(***************************************************************************)
(* PUT /update.  Every exception of the handler, its own HTTPExceptions    *)
(* too, passes the except clause; where file_path was never assigned the   *)
(* finally clause raises on it, and that exception is the one that leaves. *)
(***************************************************************************)
UpdateUserNotFound == HTTPException(404, "User not found.")
UpdateNotPdf == HTTPException(400, "Invalid file type. Only PDF files are accepted!")
UpdateTooLarge == HTTPException(400, "The file is too large. Max size allowed is 20 MB")
UpdateExtractFailed == HTTPException(500, "Failed to extract text from PDF!")
UpdateOk == [status |-> 200, detail |-> "Data appended successfully"]

\* The response of a handler that raised `e` inside try before file_path was assigned.
UpdateRaisedEarly(e) == Unhandled

\* The response of a handler that raised `e` inside try after file_path was assigned.
UpdateRaisedLate(e) == ProcessingError(e)

update_pdf_data(file, token, fails) ==
    LET current_user == require_login(token)
        Return(resp, conn, io, tbl, files, texts) ==
            /\ pdfs' = tbl
            /\ tempFiles' = files
            /\ arrived' = [arrived EXCEPT ![current_user] = @ \o texts]
            /\ Len(arrived'[current_user]) <= MaxArrivals
            /\ last' = [Served("update", [current_user |-> current_user, file |-> file], resp, conn)
                          EXCEPT !.io = io]
            /\ UNCHANGED <<calls, users, tokens, today, deleted, cleared>>
        conn == get_connection(fails)
    IN  IF ~conn.ok
        THEN Return(UpdateRaisedEarly(ConnectError), conn, NoIo, pdfs, tempFiles, <<>>)
        ELSE IF SelectUserById(users, current_user) = {}
        THEN Return(UpdateRaisedEarly(Str(UpdateUserNotFound)), Finally(conn), NoIo,
                    pdfs, tempFiles, <<>>)
        ELSE IF file.content_type # "application/pdf"
        THEN Return(UpdateRaisedEarly(Str(UpdateNotPdf)), Finally(conn), NoIo,
                    pdfs, tempFiles, <<>>)
        ELSE LET contents == file.contents
                 file_size == contents.size
             IN
             IF TooLargeFile(file_size)
             THEN Return(UpdateRaisedEarly(Str(UpdateTooLarge)), Finally(conn), NoIo,
                         pdfs, tempFiles, <<>>)
             ELSE LET file_path == UPLOAD_DIR \o "/" \o current_user \o "_update_" \o file.filename
                      written == WriteFile(tempFiles, file_path, contents)
                      new_text == extract_text_from_pdf(written, file_path)
                      removed == RemoveFile(written, file_path)
                      io == TempIo
                  IN
                  IF new_text = None
                  THEN Return(UpdateRaisedLate(Str(UpdateExtractFailed)), Finally(conn), io,
                              pdfs, removed, <<>>)
                  ELSE LET last_updated == today
                       IN  Return(UpdateOk, Finally(conn), io,
                                  UpdatePdfText(pdfs, "\n\n" \o new_text, last_updated,
                                                current_user, file.filename),
                                  removed, <<new_text>>)

(***************************************************************************)
(* GET /query                                                              *)
(***************************************************************************)
QueryUserNotFound == HTTPException(404, "User not found!")
QueryNoData == HTTPException(404, "No PDF data found for this user")
QueryOk(uid, name, query, llm_response) ==
    [status |-> 200, detail |-> "", uuid |-> uid, user |-> name, query |-> query,
     LLM_response |-> llm_response]

query_data(query, token, fails, llm_fails) ==
    LET current_user == require_login(token)
        Return(resp, conn, llm) ==
            /\ last' = [Served("query", [current_user |-> current_user, query |-> query], resp, conn)
                          EXCEPT !.io.llm = llm]
            /\ UNCHANGED <<calls, users, tokens, today, deleted, docVars>>
        conn == get_connection(fails)
    IN  IF ~conn.ok THEN Return(Unhandled, conn, "idle")
        ELSE LET found == SelectUserById(users, current_user) IN
             IF found = {} THEN Return(QueryUserNotFound, Finally(conn), "idle")
             ELSE \E u \in found :
                    LET db_user_name == users[u].user_name
                        rows == SelectPdfText(pdfs, current_user)
                    IN  IF rows = {} THEN Return(QueryNoData, Finally(conn), "idle")
                        ELSE \E i \in rows :
                               IF pdfs[i].pdf_text = None \/ pdfs[i].pdf_text = ""
                               THEN Return(QueryNoData, Finally(conn), "idle")
                               ELSE LET stored_text == pdfs[i].pdf_text IN
                                    IF llm_fails THEN Return(Unhandled, Finally(conn), "failed")
                                    ELSE Return(QueryOk(current_user, db_user_name, query,
                                                        get_llm_response(stored_text, query)),
                                                Finally(conn), "answered")

(***************************************************************************)
(* DELETE /delete_data                                                     *)
(***************************************************************************)
NothingToDelete == [status |-> 201, detail |-> "No PDF data found for UUID"]
DataDeleted == [status |-> 201, detail |-> "Data for UUID has been deleted!"]

delete_pdf_data(token, fails) ==
    LET current_user == require_login(token)
        Return(resp, conn, tbl, ran) ==
            /\ pdfs' = tbl
            /\ arrived' = IF ran THEN [arrived EXCEPT ![current_user] = <<>>] ELSE arrived
            /\ cleared' = IF ran THEN [cleared EXCEPT ![current_user] = TRUE] ELSE cleared
            /\ last' = Served("delete_data", [current_user |-> current_user], resp, conn)
            /\ UNCHANGED <<calls, users, tokens, today, deleted, tempFiles>>
        conn == get_connection(fails)
    IN  IF ~conn.ok THEN Return(Unhandled, conn, pdfs, FALSE)
        ELSE IF SelectUserById(users, current_user) = {}
        THEN Return(UserNotFound, Finally(conn), pdfs, FALSE)
        ELSE LET remaining == DeletePdfs(pdfs, current_user)
                 deleted_rows == Len(pdfs) - Len(remaining)
             IN  IF deleted_rows = 0
                 THEN Return(NothingToDelete, Finally(conn), pdfs, TRUE)
                 ELSE Return(DataDeleted, Finally(conn), remaining, TRUE)

(***************************************************************************)
(* GET /get_users                                                          *)
(***************************************************************************)
AdminsOnly == HTTPException(403, "Admins only")
UsersListed(uuids) == [status |-> 200, detail |-> "", uuids |-> uuids, total_users |-> Len(uuids)]

\* SELECT user_id FROM users; fetchall
SelectAllUserIds(tbl) == [i \in DOMAIN tbl |-> tbl[i].user_id]

get_all_users(token, fails) ==
    LET current_user == require_login(token)
        Return(resp, conn) ==
            /\ last' = Served("get_users", [current_user |-> current_user], resp, conn)
            /\ UNCHANGED <<calls, users, tokens, today, deleted, docVars>>
        conn == get_connection(fails)
    IN  IF ~conn.ok THEN Return(Unhandled, conn)
        ELSE IF SelectUserById(users, current_user) = {}
        THEN Return(UserNotFound, Finally(conn))
        ELSE IF current_user # "92994189-e6ae-43f8-8df9-00247522e3c6"
        THEN Return(AdminsOnly, Finally(conn))
        ELSE Return(UsersListed(SelectAllUserIds(users)), Finally(conn))

(***************************************************************************)
(* GET /uploads_history                                                    *)
(***************************************************************************)
HistoryUserNotFound == HTTPException(404, "UUID not found")
HistoryNotFound == HTTPException(404, "History not found")
HistoryOk(row) ==
    [status |-> 200, detail |-> "", file_name |-> row.file_name,
     upload_date |-> row.upload_date, last_updated |-> row.last_updated]

\* SELECT user_id, file_name, upload_date, last_updated FROM pdfs
SelectHistory(tbl, uid) == DOMAIN tbl

get_uploads_history(token, fails) ==
    LET current_user == require_login(token)
        Return(resp, conn) ==
            /\ last' = Served("uploads_history", [current_user |-> current_user], resp, conn)
            /\ UNCHANGED <<calls, users, tokens, today, deleted, docVars>>
        conn == get_connection(fails)
    IN  IF ~conn.ok THEN Return(Unhandled, conn)
        ELSE IF SelectUserById(users, current_user) = {}
        THEN Return(HistoryUserNotFound, Finally(conn))
        ELSE LET rows == SelectHistory(pdfs, current_user)
             IN  IF rows = {} THEN Return(HistoryNotFound, Finally(conn))
                 ELSE \E i \in rows : Return(HistoryOk(pdfs[i]), Finally(conn))

(***************************************************************************)
(* The day passes.                                                         *)
(***************************************************************************)
Tick ==
    /\ today < MaxDay
    /\ today' = today + 1
    /\ last' = Served("tick", [none |-> TRUE], [status |-> 0, detail |-> ""], NoConn)
    /\ UNCHANGED <<calls, users, tokens, deleted, docVars>>

(***************************************************************************)
(* Requests that overlap.  Each worker serves one request at a time, in    *)
(* the steps at which its handler reads or writes the tables or the        *)
(* scratch directory.                                                      *)
(***************************************************************************)
Workers == {"w1", "w2"}
NoCall ==
    [op |-> "none", pc |-> "idle", user_id |-> None, arg |-> None, path |-> None,
     text |-> None, rows |-> {}, resp |-> [status |-> 0, detail |-> ""]]

Free(w) == calls[w].pc \in {"idle", "done"}

\* The worker goes on to step `pc` of its request.
Goto(w, pc) == calls' = [calls EXCEPT ![w].pc = pc]

\* The worker's request is over and answered.
Answer(w, resp) == calls' = [calls EXCEPT ![w].pc = "done", ![w].resp = resp]

\* extract_text_from_pdf on a path that may be gone: the extraction fails.
ExtractIfThere(files, file_path) ==
    IF file_path \in DOMAIN files THEN extract_text_from_pdf(files, file_path) ELSE None

(***************************************************************************)
(* register_user in two steps: the SELECT, then the INSERT and commit.     *)
(***************************************************************************)
RegisterSelect(w, uuid, reg) ==
    LET uuid_str == uuid
        begun == [NoCall EXCEPT !.op = "register_user", !.user_id = uuid_str, !.arg = reg]
        End(resp) == calls' = [calls EXCEPT ![w] = [begun EXCEPT !.pc = "done", !.resp = resp]]
    IN  /\ Free(w)
        /\ IF reg.user_name = "" THEN End(RegisterEmptyName)
           ELSE IF Len(reg.user_name) > max_user_length THEN End(RegisterLongName)
           ELSE LET found == SelectUserByIdOrEmail(users, uuid_str, reg.email)
                IN  IF found = {}
                    THEN calls' = [calls EXCEPT ![w] = [begun EXCEPT !.pc = "insert"]]
                    ELSE \E i \in found :
                           IF users[i].user_id = uuid_str THEN End(RegisterUuidTaken)
                           ELSE End(RegisterEmailTaken)
        /\ UNCHANGED <<users, tokens, today, deleted, last, docVars>>

RegisterInsert(w) ==
    LET call == calls[w]
        password_bytes == TruncateBytes(Utf8Encode(call.arg.password))
        decoded == Utf8Decode(password_bytes)
    IN  /\ call.op = "register_user"
        /\ call.pc = "insert"
        /\ IF ~decoded.ok
           THEN Answer(w, Unhandled) /\ UNCHANGED users
           ELSE /\ users' = InsertUser(users, [user_id |-> call.user_id,
                                               user_name |-> call.arg.user_name,
                                               email |-> call.arg.email,
                                               password |-> BcryptHash(decoded.text),
                                               registration_date |-> today])
                /\ Answer(w, RegisterOk)
        /\ UNCHANGED <<tokens, today, deleted, last, docVars>>

(***************************************************************************)
(* upload_pdf in steps: the checks and the write of the scratch file, the  *)
(* extraction, the statements on the database, and the finally clause,     *)
(* whose os.path.exists and os.remove are two steps.                       *)
(***************************************************************************)
UploadWrite(w, file, token) ==
    LET current_user == require_login(token)
        file_path == UPLOAD_DIR \o "/" \o current_user \o "_" \o file.filename
        begun == [NoCall EXCEPT !.op = "upload", !.user_id = current_user, !.arg = file,
                                !.path = file_path]
        End(resp) == calls' = [calls EXCEPT ![w] = [begun EXCEPT !.pc = "done", !.resp = resp]]
    IN  /\ Free(w)
        /\ Len(arrived[current_user]) < MaxArrivals
        /\ IF file.content_type # "application/pdf"
           THEN End(UploadNotPdf) /\ UNCHANGED tempFiles
           ELSE IF TooLargeFile(file.contents.size)
           THEN End(UploadTooLarge) /\ UNCHANGED tempFiles
           ELSE /\ tempFiles' = WriteFile(tempFiles, file_path, file.contents)
                /\ calls' = [calls EXCEPT ![w] = [begun EXCEPT !.pc = "extract"]]
        /\ UNCHANGED <<users, tokens, today, deleted, last, pdfs, arrived, cleared>>

UploadExtract(w) ==
    LET call == calls[w]
        extracted_text == ExtractIfThere(tempFiles, call.path)
    IN  /\ call.op = "upload"
        /\ call.pc = "extract"
        /\ IF extracted_text = None
           THEN calls' = [calls EXCEPT ![w].pc = "finally",
                                       ![w].resp = ProcessingError(Str(UploadExtractFailed))]
           ELSE calls' = [calls EXCEPT ![w].pc = "store", ![w].text = extracted_text]
        /\ UNCHANGED <<users, tokens, today, deleted, last, docVars>>

UploadStore(w) ==
    LET call == calls[w]
        upload_date == today
    IN  /\ call.op = "upload"
        /\ call.pc = "store"
        /\ IF SelectUserById(users, call.user_id) = {}
           THEN /\ calls' = [calls EXCEPT ![w].pc = "finally",
                                          ![w].resp = ProcessingError(Str(UploadUserNotFound))]
                /\ UNCHANGED <<pdfs, arrived, cleared>>
           ELSE /\ pdfs' = InsertPdf(pdfs, [user_id |-> call.user_id,
                                            file_name |-> call.arg.filename,
                                            upload_date |-> upload_date,
                                            pdf_text |-> call.text,
                                            last_updated |-> upload_date])
                /\ arrived' = [arrived EXCEPT ![call.user_id] = Append(@, call.text)]
                /\ cleared' = [cleared EXCEPT ![call.user_id] = FALSE]
                /\ calls' = [calls EXCEPT ![w].pc = "finally", ![w].resp = UploadOk]
        /\ UNCHANGED <<users, tokens, today, deleted, last, tempFiles>>

(***************************************************************************)
(* update_pdf_data in steps, as upload_pdf; its UPDATE is one statement.   *)
(***************************************************************************)
UpdateWrite(w, file, token) ==
    LET current_user == require_login(token)
        file_path == UPLOAD_DIR \o "/" \o current_user \o "_update_" \o file.filename
        begun == [NoCall EXCEPT !.op = "update", !.user_id = current_user, !.arg = file]
        End(resp) == calls' = [calls EXCEPT ![w] = [begun EXCEPT !.pc = "done", !.resp = resp]]
    IN  /\ Free(w)
        /\ Len(arrived[current_user]) < MaxArrivals
        /\ IF SelectUserById(users, current_user) = {}
           THEN End(UpdateRaisedEarly(Str(UpdateUserNotFound))) /\ UNCHANGED tempFiles
           ELSE IF file.content_type # "application/pdf"
           THEN End(UpdateRaisedEarly(Str(UpdateNotPdf))) /\ UNCHANGED tempFiles
           ELSE IF TooLargeFile(file.contents.size)
           THEN End(UpdateRaisedEarly(Str(UpdateTooLarge))) /\ UNCHANGED tempFiles
           ELSE /\ tempFiles' = WriteFile(tempFiles, file_path, file.contents)
                /\ calls' = [calls EXCEPT ![w] = [begun EXCEPT !.pc = "extract",
                                                                !.path = file_path]]
        /\ UNCHANGED <<users, tokens, today, deleted, last, pdfs, arrived, cleared>>

UpdateExtract(w) ==
    LET call == calls[w]
        new_text == ExtractIfThere(tempFiles, call.path)
    IN  /\ call.op = "update"
        /\ call.pc = "extract"
        /\ IF new_text = None
           THEN calls' = [calls EXCEPT ![w].pc = "finally",
                                       ![w].resp = UpdateRaisedLate(Str(UpdateExtractFailed))]
           ELSE calls' = [calls EXCEPT ![w].pc = "append", ![w].text = new_text]
        /\ UNCHANGED <<users, tokens, today, deleted, last, docVars>>

UpdateAppend(w) ==
    LET call == calls[w]
        last_updated == today
    IN  /\ call.op = "update"
        /\ call.pc = "append"
        /\ pdfs' = UpdatePdfText(pdfs, "\n\n" \o call.text, last_updated,
                                 call.user_id, call.arg.filename)
        /\ arrived' = [arrived EXCEPT ![call.user_id] = Append(@, call.text)]
        /\ calls' = [calls EXCEPT ![w].pc = "finally", ![w].resp = UpdateOk,
                                  ![w].rows = {i \in DOMAIN pdfs : pdfs'[i] # pdfs[i]}]
        /\ UNCHANGED <<users, tokens, today, deleted, last, tempFiles, cleared>>

(***************************************************************************)
(* finally: if os.path.exists(file_path): os.remove(file_path)             *)
(***************************************************************************)
FinallyExists(w) ==
    /\ calls[w].op \in {"upload", "update"}
    /\ calls[w].pc = "finally"
    /\ IF calls[w].path \in DOMAIN tempFiles
       THEN Goto(w, "remove")
       ELSE Goto(w, "done")
    /\ UNCHANGED <<users, tokens, today, deleted, last, docVars>>

\* os.remove on a path that is gone raises FileNotFoundError out of the finally clause.
FinallyRemove(w) ==
    /\ calls[w].op \in {"upload", "update"}
    /\ calls[w].pc = "remove"
    /\ IF calls[w].path \in DOMAIN tempFiles
       THEN /\ tempFiles' = RemoveFile(tempFiles, calls[w].path)
            /\ Goto(w, "done")
       ELSE /\ Answer(w, Unhandled)
            /\ UNCHANGED tempFiles
    /\ UNCHANGED <<users, tokens, today, deleted, last, pdfs, arrived, cleared>>

(***************************************************************************)
(* The initial state: empty tables, no token issued, nothing served.       *)
(***************************************************************************)
Init ==
    /\ users = <<>>
    /\ pdfs = <<>>
    /\ tokens = {}
    /\ today = 1
    /\ tempFiles = NoFiles
    /\ last = Served("none", [none |-> TRUE], [status |-> 0, detail |-> ""], NoConn)
    /\ arrived = [u \in UUIDs |-> <<>>]
    /\ cleared = [u \in UUIDs |-> FALSE]
    /\ deleted = [u \in UUIDs |-> NoRow]
    /\ calls = [w \in Workers |-> NoCall]

(***************************************************************************)
(* The account flow: registration, login and account deletion, with names, *)
(* e-mail addresses, passwords and login strings of every kind.  A request *)
(* that fails before it reads the tables (a refused name, a database that  *)
(* refuses the connection) is made with one choice of its other fields.    *)
(***************************************************************************)
Admin == "92994189-e6ae-43f8-8df9-00247522e3c6"
GoodNames == {"bob", "a@x.com"}
BadNames == {"", "sixteen-chars-16"}
Emails == {"a@x.com", "b@x.com"}
Passwords == {PwP, PwQ}
LoginStrings == {"bob", " bob ", "al", "a@x.com", "b@x.com"} \cup UUIDs
Registration(name, addr, pw) == [user_name |-> name, email |-> addr, password |-> pw]

NextAuth ==
    \/ \E uuid \in UUIDs, name \in GoodNames, addr \in Emails, pw \in Passwords \cup {PwStraddle} :
          register_user(uuid, Registration(name, addr, pw), 0)
    \/ \E uuid \in UUIDs, name \in BadNames :
          register_user(uuid, Registration(name, "a@x.com", PwP), 0)
    \/ register_user(Admin, Registration("bob", "a@x.com", PwP), retries)
    \/ \E ident \in LoginStrings, pw \in Passwords : user_login(ident, pw, 0)
    \/ user_login("bob", PwP, retries)
    \/ \E token \in tokens, pw \in Passwords : delete_account(pw, token, 0)
    \/ \E token \in tokens : delete_account(PwP, token, retries)

SpecAuth == Init /\ [][NextAuth]_vars

(***************************************************************************)
(* The document flow: two users, each with one name, e-mail address and    *)
(* password, and the files they send.                                      *)
(***************************************************************************)
Other == "00000000-0000-4000-8000-000000000002"
Profile(uuid) == Registration("bob", IF uuid = Admin THEN "a@x.com" ELSE "b@x.com", PwP)

Pdf(name, size, text) ==
    [filename |-> name, content_type |-> "application/pdf", contents |-> [size |-> size, text |-> text]]
DocA == Pdf("a.pdf", max_size, "A")
DocB == Pdf("b.pdf", 1024, "B")
Blank == Pdf("a.pdf", 1024, "")
TooLarge == Pdf("a.pdf", max_size + 1, "A")
Unreadable == Pdf("a.pdf", 1024, None)
NotPdf == [filename |-> "a.txt", content_type |-> "text/plain", contents |-> [size |-> 1024, text |-> None]]
Files == {DocA, DocB, TooLarge, Unreadable, NotPdf}
Queries == {"what does it say", "why"}

\* The administrator sends every file; the other user uploads a document without text.
Sends(token) == IF token.sub = Admin THEN Files ELSE {Blank}
AdminTokens == {token \in tokens : token.sub = Admin}

\* The connection attempts that fail before one succeeds, or all of them.
Outages == {3, retries}

Next ==
    \/ \E uuid \in UUIDs : register_user(uuid, Profile(uuid), 0)
    \/ \E addr \in Emails : user_login(addr, PwP, 0)
    \/ \E token \in AdminTokens : delete_account(PwP, token, 0)
    \/ \E token \in tokens : \E file \in Sends(token) : upload_pdf(file, token, 0)
    \/ \E token \in AdminTokens : upload_pdf(DocA, token, retries)
    \/ \E token \in AdminTokens, file \in Files : update_pdf_data(file, token, 0)
    \/ \E token \in AdminTokens : update_pdf_data(DocA, token, retries)
    \/ \E token \in tokens, query \in Queries : query_data(query, token, 0, FALSE)
    \/ \E token \in AdminTokens, fails \in Outages : query_data("why", token, fails, FALSE)
    \/ \E token \in AdminTokens : query_data("why", token, 0, TRUE)
    \/ \E token \in tokens : delete_pdf_data(token, 0)
    \/ \E token \in AdminTokens : delete_pdf_data(token, retries)
    \/ \E token \in tokens : get_all_users(token, 0)
    \/ \E token \in AdminTokens : get_all_users(token, retries)
    \/ \E token \in tokens : get_uploads_history(token, 0)
    \/ \E token \in AdminTokens, fails \in Outages : get_uploads_history(token, fails)
    \/ Tick

Spec == Init /\ [][Next]_vars

(***************************************************************************)
(* Overlapping requests: two workers serve registrations with one e-mail   *)
(* address, and uploads and updates of two files of one name.              *)
(***************************************************************************)
DocC == Pdf("a.pdf", 1024, "C")
RaceFiles == {DocA, DocC}

NextRace ==
    \/ \E w \in Workers, uuid \in UUIDs : RegisterSelect(w, uuid, Profile(Admin))
    \/ \E w \in Workers : RegisterInsert(w)
    \/ user_login("a@x.com", PwP, 0)
    \/ \E w \in Workers, file \in RaceFiles, token \in AdminTokens : UploadWrite(w, file, token)
    \/ \E w \in Workers : UploadExtract(w)
    \/ \E w \in Workers : UploadStore(w)
    \/ \E w \in Workers, file \in RaceFiles, token \in AdminTokens : UpdateWrite(w, file, token)
    \/ \E w \in Workers : UpdateExtract(w)
    \/ \E w \in Workers : UpdateAppend(w)
    \/ \E w \in Workers : FinallyExists(w)
    \/ \E w \in Workers : FinallyRemove(w)

SpecRace == Init /\ [][NextRace]_vars

(***************************************************************************)
(* What the properties speak of.                                           *)
(***************************************************************************)
HasUserId(tbl, uid) == \E i \in DOMAIN tbl : tbl[i].user_id = uid
EmailOfAnother(tbl, uid, addr) == \E i \in DOMAIN tbl : tbl[i].email = addr /\ tbl[i].user_id # uid
HasEmail(tbl, addr) == \E i \in DOMAIN tbl : tbl[i].email = addr
ValidName(name) == name # "" /\ Len(name) <= 15
IsPasswordOf(secret, row) == BcryptHash(secret) = row.password
Named(tbl, ident) == {i \in DOMAIN tbl : tbl[i].user_name = ident \/ tbl[i].email = ident}
Unauthorized == [status |-> 401, detail |-> "Invalid credentials."]
WellFormedLogin(ident) == StripWhitespace(ident) = ident /\ Len(ident) >= 3 /\ Len(ident) <= 50

(***************************************************************************)
(* C1.  A register request whose identifier is that of a user row, or      *)
(* whose e-mail address is that of a user row with another identifier,     *)
(* fails with an error response and leaves table users unchanged; a        *)
(* register request with a fresh identifier, a fresh e-mail address and a  *)
(* valid name (the database accepting the connection) inserts exactly one  *)
(* user row, its own.                                                      *)
(***************************************************************************)
C1_RegisterStep ==
    LET req == last'.req IN
    /\ (HasUserId(users, req.uuid) \/ EmailOfAnother(users, req.uuid, req.user.email))
          => (last'.resp.status >= 400 /\ users' = users)
    /\ (/\ ~HasUserId(users, req.uuid)
        /\ ~HasEmail(users, req.user.email)
        /\ ValidName(req.user.user_name)
        /\ last'.conn.ok)
          => /\ Len(users') = Len(users) + 1
             /\ SubSeq(users', 1, Len(users)) = users
             /\ users'[Len(users')].user_id = req.uuid
             /\ users'[Len(users')].email = req.user.email
             /\ last'.resp.status = 200

C1_RegisterConflictOrInsert == [][last'.op = "register_user" => C1_RegisterStep]_vars

\* C1 holds of every registration whose password is too short to be cut.
C1_ExceptCutPassword ==
    [][(/\ last'.op = "register_user"
        /\ 2 * Len(last'.req.user.password) <= BcryptLimit)
          => C1_RegisterStep]_vars

\* The registration C1 fails on: all fresh, the password cut inside a character.
C1_CutPasswordSeen ==
    /\ last.op = "register_user"
    /\ last.req.user.password = PwStraddle
    /\ ~HasUserId(users, last.req.uuid)
    /\ ~HasEmail(users, last.req.user.email)
    /\ last.resp = Unhandled

(***************************************************************************)
(* C2.  A login with a string no user row carries and a login with a       *)
(* string some user row carries but a password of none of those rows are   *)
(* answered with one and the same response, 401 "Invalid credentials.",    *)
(* and neither issues a token.                                             *)
(***************************************************************************)
C2_UnknownUser(ident) == Named(users, StripWhitespace(ident)) = {}
C2_WrongPassword(ident, secret) ==
    /\ Named(users, StripWhitespace(ident)) # {}
    /\ \A i \in Named(users, StripWhitespace(ident)) : ~IsPasswordOf(secret, users[i])

C2_SameUnauthorized ==
    [][(/\ last'.op = "login"
        /\ last'.conn.ok
        /\ \/ C2_UnknownUser(last'.req.identifier)
           \/ C2_WrongPassword(last'.req.identifier, last'.req.password))
          => (/\ last'.resp = Unauthorized
              /\ "access_token" \notin DOMAIN last'.resp
              /\ tokens' = tokens)]_vars

C2_WrongPasswordSeen ==
    /\ last.op = "login"
    /\ C2_WrongPassword(last.req.identifier, last.req.password)
    /\ last.resp = Unauthorized

(***************************************************************************)
(* C3, as the specification states it.  For every user row U: a login with *)
(* U's identifier and U's password, and a login with U's e-mail address    *)
(* and U's password, succeed and return a token signed for U's identifier. *)
(***************************************************************************)
C3_LoginByIdentifierOrEmail ==
    \A i \in DOMAIN users :
        (/\ last.op = "login"
         /\ last.conn.ok
         /\ last.req.identifier \in {users[i].user_id, users[i].email}
         /\ IsPasswordOf(last.req.password, users[i]))
          => (/\ last.resp.status = 200
              /\ last.resp.access_token = sign_jwt(users[i].user_id))

(***************************************************************************)
(* C3, amended.  The lookup is by user name or e-mail address.  For every  *)
(* user row U: a login with U's user name and U's password, and one with   *)
(* U's e-mail address and U's password, succeed and return a token signed  *)
(* for U's identifier, when the login string is 3 to 50 characters without *)
(* surrounding whitespace and no other user row carries it as user name or *)
(* e-mail address; a login with U's identifier, which no row carries as    *)
(* user name or e-mail address, is answered 401.                           *)
(***************************************************************************)
C3_LoginByNameOrEmail ==
    \A i \in DOMAIN users :
        /\ (/\ last.op = "login"
            /\ last.conn.ok
            /\ last.req.identifier \in {users[i].user_name, users[i].email}
            /\ WellFormedLogin(last.req.identifier)
            /\ Named(users, last.req.identifier) = {i}
            /\ IsPasswordOf(last.req.password, users[i]))
             => (/\ last.resp.status = 200
                 /\ last.resp.access_token = sign_jwt(users[i].user_id)
                 /\ last.resp.access_token \in tokens)
        /\ (/\ last.op = "login"
            /\ last.conn.ok
            /\ last.req.identifier = users[i].user_id
            /\ Named(users, last.req.identifier) = {})
             => last.resp = Unauthorized

C3_LoginByNameSeen ==
    \E i \in DOMAIN users :
        /\ last.op = "login"
        /\ Len(users) = 2
        /\ last.req.identifier = users[i].user_name
        /\ last.req.identifier # users[i].email
        /\ last.resp.status = 200
        /\ last.resp.access_token = sign_jwt(users[i].user_id)

(***************************************************************************)
(* C7, as the specification states it.  A delete_account with a password   *)
(* that does not verify against the stored hash is answered 401 and leaves *)
(* the user row in place; with the right password it removes the user row, *)
(* and every later login with that user's name or e-mail address and       *)
(* password fails until the user is registered again.                      *)
(***************************************************************************)
C7_DeleteStep ==
    LET req == last'.req
        mine == {i \in DOMAIN users : users[i].user_id = req.current_user}
    IN  \A i \in mine :
          /\ (~IsPasswordOf(req.password, users[i]) /\ last'.conn.ok)
                => (last'.resp.status = 401 /\ users' = users)
          /\ (IsPasswordOf(req.password, users[i]) /\ last'.conn.ok)
                => (/\ ~HasUserId(users', req.current_user)
                    /\ Len(users') = Len(users) - 1
                    /\ last'.resp.status = 201)

C7_LoginAsDeleted(u) ==
    /\ last'.op = "login"
    /\ last'.conn.ok
    /\ deleted[u] # NoRow
    /\ last'.req.identifier \in {deleted[u].user_name, deleted[u].email}
    /\ IsPasswordOf(last'.req.password, deleted[u])

C7_DeletedCannotLogin ==
    [][/\ last'.op = "delete_account" => C7_DeleteStep
       /\ \A u \in UUIDs : C7_LoginAsDeleted(u) => last'.resp.status # 200]_vars

(***************************************************************************)
(* C7, amended.  As above, but a later login with that user's name or      *)
(* e-mail address fails for as long as no user row carries that string as  *)
(* user name or e-mail address (a row of another user may), and no login   *)
(* returns a token for an identifier that has no user row.                 *)
(***************************************************************************)
C7_DeletedCannotLoginUnlessNamed ==
    [][/\ last'.op = "delete_account" => C7_DeleteStep
       /\ \A u \in UUIDs :
            (C7_LoginAsDeleted(u) /\ Named(users, last'.req.identifier) = {})
               => (last'.resp = Unauthorized /\ tokens' = tokens)
       /\ (last'.op = "login" /\ last'.resp.status = 200)
               => HasUserId(users, last'.resp.access_token.sub)]_vars

C7_DeletedLoginRefusedSeen ==
    \E u \in UUIDs :
        /\ last.op = "login"
        /\ deleted[u] # NoRow
        /\ users # <<>>
        /\ last.req.identifier = deleted[u].email
        /\ IsPasswordOf(last.req.password, deleted[u])
        /\ last.resp = Unauthorized

(***************************************************************************)
(* Helpers of the document properties, apart from the SQL operators.       *)
(***************************************************************************)
OwnedBy(tbl, uid) == {i \in DOMAIN tbl : tbl[i].user_id = uid}
TextsOf(tbl, uid) == {tbl[i].pdf_text : i \in OwnedBy(tbl, uid)}

RECURSIVE NotOwnedBy(_, _)
NotOwnedBy(tbl, uid) ==
    IF tbl = <<>> THEN <<>>
    ELSE IF Head(tbl).user_id = uid THEN NotOwnedBy(Tail(tbl), uid)
    ELSE <<Head(tbl)>> \o NotOwnedBy(Tail(tbl), uid)

RECURSIVE Joined(_)
Joined(texts) ==
    IF Len(texts) = 0 THEN ""
    ELSE IF Len(texts) = 1 THEN texts[1]
    ELSE texts[1] \o "\n\n" \o Joined(Tail(texts))

IsPdf(file) == file.content_type = "application/pdf"
Ceiling == 20 * 1024 * 1024

(***************************************************************************)
(* C4.  An upload whose content type is not PDF, or whose size is over the *)
(* 20 MB ceiling, is answered 400 and has written no temporary file, run   *)
(* no extraction and inserted no row; an upload of exactly 20 MB is not    *)
(* answered 400.                                                           *)
(***************************************************************************)
C4_UploadStep ==
    LET file == last'.req.file
    IN  /\ (~IsPdf(file) \/ file.contents.size > Ceiling)
              => /\ last'.resp.status = 400
                 /\ ~last'.io.written
                 /\ ~last'.io.extracted
                 /\ tempFiles' = tempFiles
                 /\ pdfs' = pdfs
        /\ (IsPdf(file) /\ file.contents.size = Ceiling) => last'.resp.status # 400

C5_StoredTextIsConcatenation ==
    \A u \in UUIDs :
        arrived[u] # <<>> =>
            /\ OwnedBy(pdfs, u) # {}
            /\ TextsOf(pdfs, u) = {Joined(arrived[u])}

(***************************************************************************)
(* C6.  A query of an existing user for whom no text is stored is answered *)
(* 404; otherwise the answer is 404 only if a row of the user holds no     *)
(* text, and else it carries the user, the query as sent and the LLM       *)
(* client's answer to (a text stored for that user, the query), unchanged. *)
(***************************************************************************)
C6_QueryStep ==
    LET uid == last'.req.current_user
        query == last'.req.query
        texts == TextsOf(pdfs, uid) \ {"", None}
        Answered(name, text) ==
            /\ last'.resp.status = 200
            /\ last'.resp.uuid = uid
            /\ last'.resp.user = name
            /\ last'.resp.query = query
            /\ last'.resp.LLM_response = get_llm_response(text, query)
    IN  /\ texts = {} => last'.resp = QueryNoData
        /\ (texts # {} /\ texts = TextsOf(pdfs, uid)) => last'.resp # QueryNoData
        /\ last'.resp # QueryNoData =>
              \E i \in DOMAIN users, text \in texts :
                  users[i].user_id = uid /\ Answered(users[i].user_name, text)
        /\ UNCHANGED <<users, pdfs, tokens>>

C8_DeleteDataStep ==
    LET uid == last'.req.current_user
    IN  /\ pdfs' = NotOwnedBy(pdfs, uid)
        /\ last'.resp.status = 201
        /\ cleared[uid] => last'.resp = NothingToDelete

C8_DeleteDataRemovesOwnRows ==
    [][(/\ last'.op = "delete_data"
        /\ last'.conn.ok
        /\ HasUserId(users, last'.req.current_user)) => C8_DeleteDataStep]_vars

C8_OtherRowsKeptSeen ==
    /\ last.op = "delete_data"
    /\ last.resp = DataDeleted
    /\ pdfs # <<>>
    /\ OwnedBy(pdfs, last.req.current_user) = {}

(***************************************************************************)
(* C9.  An upload of an acceptable file by a token whose user has no row   *)
(* is answered 404, one whose extraction fails is answered 500, and        *)
(* neither inserts a row.                                                  *)
(***************************************************************************)
C9_UploadStep ==
    LET file == last'.req.file
        uid == last'.req.current_user
        readable == file.contents.text # None
    IN  /\ (~HasUserId(users, uid) /\ readable /\ last'.conn.ok)
              => (last'.resp.status = 404 /\ pdfs' = pdfs)
        /\ ~readable => (last'.resp.status = 500 /\ pdfs' = pdfs)

C9_UploadNotFoundOrUpstream ==
    [][(/\ last'.op = "upload"
        /\ IsPdf(last'.req.file)
        /\ last'.req.file.contents.size <= Ceiling) => C9_UploadStep]_vars

(***************************************************************************)
(* C10.  An update is answered 400 for a file that is not a PDF or is over *)
(* the ceiling and 404 for a user without a row, and in each of these      *)
(* cases table pdfs is as it was.                                          *)
(***************************************************************************)
C10_UpdateStep ==
    LET file == last'.req.file
        known == HasUserId(users, last'.req.current_user)
        bad == ~IsPdf(file) \/ file.contents.size > Ceiling
    IN  /\ (known /\ bad) => last'.resp.status = 400
        /\ (~known /\ ~bad) => last'.resp.status = 404
        /\ (~known /\ bad) => last'.resp.status \in {400, 404}
        /\ (~known \/ bad) => pdfs' = pdfs

C10_UpdateRejectsAsUpload ==
    [][(last'.op = "update" /\ last'.conn.ok) => C10_UpdateStep]_vars

(***************************************************************************)
(* C11.  Every row of table pdfs is owned by an identifier that has a row  *)
(* in table users: deleting an account leaves no document row of it.      *)
(***************************************************************************)
C11_EveryRowOwned == \A i \in DOMAIN pdfs : HasUserId(users, pdfs[i].user_id)

(***************************************************************************)
(* C12.  What a query or an upload history of an existing user U returns   *)
(* is taken from a row of table pdfs owned by U, and both are answered 404 *)
(* when U owns no row.                                                     *)
(***************************************************************************)
C12_FromOwnRow ==
    LET uid == last'.req.current_user
        own == OwnedBy(pdfs, uid)
    IN  /\ own = {} => last'.resp.status = 404
        /\ (last'.op = "query" /\ last'.resp.status = 200) =>
              \E i \in own :
                  last'.resp.LLM_response = get_llm_response(pdfs[i].pdf_text, last'.req.query)
        /\ (last'.op = "uploads_history" /\ last'.resp.status = 200) =>
              \E i \in own :
                  /\ last'.resp.file_name = pdfs[i].file_name
                  /\ last'.resp.upload_date = pdfs[i].upload_date
                  /\ last'.resp.last_updated = pdfs[i].last_updated

C12_OnlyOwnRowsRead ==
    [][(/\ last'.op \in {"query", "uploads_history"}
        /\ last'.conn.ok
        /\ last'.io.llm # "failed"
        /\ HasUserId(users, last'.req.current_user)) => C12_FromOwnRow]_vars

(***************************************************************************)
(* C13.  When an upload or an update has ended, however it ended, the      *)
(* scratch directory holds no file under the path of that request, and     *)
(* nothing else in the directory has changed.                              *)
(***************************************************************************)
ScratchPath(op, uid, name) ==
    "/temp/cag_uploads/" \o uid \o (IF op = "update" THEN "_update_" ELSE "_") \o name

C13_NoTempFileLeft ==
    [][last'.op \in {"upload", "update"} =>
          LET path == ScratchPath(last'.op, last'.req.current_user, last'.req.file.filename)
          IN  /\ path \notin DOMAIN tempFiles'
              /\ \A other \in DOMAIN tempFiles \ {path} :
                    other \in DOMAIN tempFiles' /\ tempFiles'[other] = tempFiles[other]
              /\ DOMAIN tempFiles' \subseteq DOMAIN tempFiles]_vars

C13_FailedUploadCleanedSeen ==
    /\ last.op = "upload"
    /\ last.io.written
    /\ last.resp.status = 500
    /\ last.conn.ok
    /\ DOMAIN tempFiles = {}

(***************************************************************************)
(* C16.  A request makes at most 10 connection attempts; it has a          *)
(* connection after 1 to 10 attempts or, after 10 failed ones, is answered *)
(* 500; and a connection a handler obtained is closed when the handler     *)
(* has ended.                                                              *)
(***************************************************************************)
C16_ConnectionBoundedAndClosed ==
    /\ last.conn.attempts <= 10
    /\ last.conn.ok => (last.conn.attempts >= 1 /\ last.conn.closed)
    /\ ~last.conn.ok => /\ last.conn.attempts \in {0, 10}
                        /\ ~last.conn.closed
                        /\ last.conn.attempts = 10 => last.resp.status = 500

C16_RetriedConnectionClosedSeen ==
    /\ last.op = "query"
    /\ last.conn.ok
    /\ last.conn.attempts = 4
    /\ last.conn.closed
    /\ last.resp.status = 200

(***************************************************************************)
(* C14.  No two rows of table users have the same identifier, and no two   *)
(* have the same e-mail address, also when registrations overlap.          *)
(***************************************************************************)
C14_UniqueUsers ==
    \A i, j \in DOMAIN users :
        i # j => (users[i].user_id # users[j].user_id /\ users[i].email # users[j].email)

(***************************************************************************)
(* C15.  Two overlapping updates of one user on one row can lose an        *)
(* append: where one update has appended to a row and the other is about   *)
(* to run its UPDATE on that row, the second can leave the row without     *)
(* the text the first appended.                                            *)
(***************************************************************************)
Segment(call) == "\n\n" \o call.text
At(text, k, part) == k + Len(part) - 1 <= Len(text) /\ SubSeq(text, k, k + Len(part) - 1) = part
HasBoth(text, one, two) ==
    \E k1, k2 \in 1..Len(text) :
        /\ At(text, k1, one)
        /\ At(text, k2, two)
        /\ (k1 + Len(one) <= k2 \/ k2 + Len(two) <= k1)

Appended(w) ==
    /\ calls[w].op = "update"
    /\ calls[w].pc \in {"finally", "remove", "done"}
    /\ calls[w].resp = UpdateOk

AboutToAppend(w, i) ==
    /\ calls[w].op = "update"
    /\ calls[w].pc = "append"
    /\ pdfs[i].user_id = calls[w].user_id
    /\ pdfs[i].file_name = calls[w].arg.filename

C15_LostUpdatePossible ==
    \A w1, w2 \in Workers : \A i \in DOMAIN pdfs :
        (w1 # w2 /\ Appended(w1) /\ i \in calls[w1].rows /\ AboutToAppend(w2, i)) =>
            ENABLED (/\ UpdateAppend(w2)
                     /\ ~HasBoth(pdfs'[i].pdf_text, Segment(calls[w1]), Segment(calls'[w2])))

(***************************************************************************)
(* C15, amended.  Every UPDATE of an update request appends to the text    *)
(* the row holds at that moment, so when two overlapping updates have both *)
(* succeeded on a row, the row's text holds what each of them appended.    *)
(***************************************************************************)
C15_BothAppendsKept ==
    \A w1, w2 \in Workers : \A i \in DOMAIN pdfs :
        (w1 # w2 /\ Appended(w1) /\ Appended(w2) /\ i \in calls[w1].rows \cap calls[w2].rows) =>
            HasBoth(pdfs[i].pdf_text, Segment(calls[w1]), Segment(calls[w2]))

C15_OverlappingUpdatesSeen ==
    /\ Appended("w1")
    /\ Appended("w2")
    /\ calls["w1"].pc # "done"
    /\ calls["w2"].pc # "done"
    /\ calls["w1"].text # calls["w2"].text
    /\ calls["w1"].rows \cap calls["w2"].rows # {}

(***************************************************************************)
(* C17.  A request that has written its scratch file finds its own bytes   *)
(* there when it extracts, and finds the file there when it removes it.    *)
(***************************************************************************)
C17_OwnScratchFile ==
    \A w \in Workers :
        /\ calls[w].pc = "extract" =>
              /\ calls[w].path \in DOMAIN tempFiles
              /\ tempFiles[calls[w].path] = calls[w].arg.contents
        /\ calls[w].pc = "remove" => calls[w].path \in DOMAIN tempFiles
====
